---- MODULE Spec2Model ----
(***************************************************************************)
(* Model of the housing-analyzer calculation engine (src/src/calculator.ts) *)
(* and of the App component that drives it (src/unnamed/part_001 and        *)
(* src/src/App.tsx).                                                        *)
(*                                                                          *)
(* Number representation.  The code computes in IEEE doubles; the model     *)
(* computes in fixed point:                                                 *)
(*   - money is an integer number of currency units (USD, or RMB for the    *)
(*     Xiamen property);                                                    *)
(*   - fractions, rates and growth factors are integers scaled by           *)
(*     ONE = 10^6 (0.2 is 200000, 5.5% is 55000, 1.0 is 1000000);           *)
(*   - percentages (APY, ROI, dti) are percent scaled by 10^4               *)
(*     (43% is 430000), so that "fraction * 100" is the fraction scaled by  *)
(*     ONE read as a percentage;                                            *)
(*   - the exchange rate is scaled by 100 (7.27 is 727).                    *)
(* Products and quotients are floored; operands are split in base 1000 so   *)
(* that no intermediate value leaves the 32-bit range.                      *)
(***************************************************************************)
EXTENDS Integers, Sequences, FiniteSets, TLC

VARIABLES
    \* ---- state of the App component (useState hooks) ----
    xiamen,                \* XiamenProperty
    sdOptions,             \* SDPropertyOption[]
    sdRentIfNotBuying,     \* number
    analysisYears,         \* number
    loanType,              \* 'conventional' | 'va'
    coBorrowers,           \* CoBorrower[]
    customInterestRate,    \* number | null: Null or [value |-> number]
    newBorrowerName,       \* string
    newBorrowerIncome,     \* string
    selectedPropertyType,  \* '1B1B' | '2B2B' | '3B2B'
    downPaymentPercent,    \* number
    roomsToRent,           \* number
    stockReturnRate,       \* number
    edits,                 \* the number of events handled so far
    \* ---- a call of an exported function of calculator.ts ----
    inp,                   \* the arguments of the call
    call,                  \* "init" before the call, the function's name after
    ret                    \* the returned value

vars == <<xiamen, sdOptions, sdRentIfNotBuying, analysisYears, loanType,
          coBorrowers, customInterestRate, newBorrowerName, newBorrowerIncome,
          selectedPropertyType, downPaymentPercent, roomsToRent,
          stockReturnRate, edits, inp, call, ret>>

appVars == <<xiamen, sdOptions, sdRentIfNotBuying, analysisYears, loanType,
             coBorrowers, customInterestRate, newBorrowerName,
             newBorrowerIncome, selectedPropertyType, downPaymentPercent,
             roomsToRent, stockReturnRate, edits>>

callVars == <<inp, call, ret>>

\* null / "none"
Null == [isNull |-> TRUE]

\* the result of an arithmetic operation JavaScript evaluates to NaN
NaN == "NaN"

----------------------------------------------------------------------------
\* Fixed-point arithmetic

ONE == 1000 * 1000

Min(a, b) == IF a < b THEN a ELSE b

SeqToSet(q) == { q[i] : i \in 1..Len(q) }

\* floor(a * b / ONE)
FMul(a, b) ==
    LET ah == a \div 1000
        al == a % 1000
        bh == b \div 1000
        bl == b % 1000
    IN  ah * bh + ((ah * bl + al * bh + ((al * bl) \div 1000)) \div 1000)

\* the first k decimal digits of r / b, for 0 <= r < b
RECURSIVE DivDigits(_, _, _)
DivDigits(r, b, k) ==
    IF k = 0 THEN 0
    ELSE ((r * 10) \div b) * (10 ^ (k - 1)) + DivDigits((r * 10) % b, b, k - 1)

\* floor(a * ONE / b), for b > 0
FDiv(a, b) == (a \div b) * ONE + DivDigits(a % b, b, 6)

\* Math.pow(x, n) for a growth factor x >= 0 and an integer n >= 0
RECURSIVE Pow(_, _)
Pow(x, n) ==
    IF n = 0 THEN ONE
    ELSE IF n % 2 = 0
         THEN LET h == Pow(x, n \div 2) IN FMul(h, h)
         ELSE FMul(x, Pow(x, n - 1))

\* a / b * 100, as a percentage, for b > 0
Percent(a, b) == FDiv(a, b)

\* the scale of a percentage: 1% is PCT
PCT == ONE \div 100

\* x^n for x >= 0, replaced by cap as soon as it is known to exceed cap / 2
RECURSIVE PowSat(_, _, _)
PowSat(x, n, cap) ==
    IF n = 0 THEN ONE
    ELSE LET p == PowSat(x, n - 1, cap)
         IN  IF x <= ONE THEN FMul(x, p)
             ELSE IF p > cap \div ((x \div ONE) + 1) THEN cap
             ELSE FMul(x, p)

\* the largest y in lo..hi with y^n <= x
RECURSIVE RootSearch(_, _, _, _)
RootSearch(x, n, lo, hi) ==
    IF lo >= hi THEN lo
    ELSE LET mid == (lo + hi + 1) \div 2
         IN  IF PowSat(mid, n, 2 * x + 2) <= x
             THEN RootSearch(x, n, mid, hi)
             ELSE RootSearch(x, n, lo, mid - 1)

\* Math.pow(x, 1/n) for 0 <= x < 1000
Root(x, n) ==
    IF x >= ONE THEN RootSearch(x, n, ONE, x) ELSE RootSearch(x, n, 0, ONE)

\* (Math.pow(x, 1/n) - 1) * 100, which is NaN for a negative base
AnnualizedPercent(x, n) ==
    IF x < 0 THEN NaN ELSE Root(x, n) - ONE

----------------------------------------------------------------------------
\* calculator.ts: getBestLoanOption

\* (variant of validOptions: the comparison is reversed)
validOptions_reversed(borrower, dp) ==
    SelectSeq(borrower.loanOptions, LAMBDA opt : dp <= opt.minDownPayment)

\* (variant of validOptions: the filter compares strictly)
validOptions_strict(borrower, dp) ==
    SelectSeq(borrower.loanOptions, LAMBDA opt : dp > opt.minDownPayment)

\* borrower.loanOptions.filter(opt => downPaymentPercent >= opt.minDownPayment)
validOptions(borrower, dp) ==
    SelectSeq(borrower.loanOptions, LAMBDA opt : dp >= opt.minDownPayment)

\* (variant of betterLoan: a later option of equal rate replaces the best)
betterLoan_lastWins(best, current) ==
    IF current.interestRate <= best.interestRate THEN current ELSE best

\* the callback of reduce
betterLoan(best, current) ==
    IF current.interestRate < best.interestRate THEN current ELSE best

\* Array.prototype.reduce without an initial value, on a non-empty array
RECURSIVE reduceFrom(_, _, _)
reduceFrom(acc, arr, i) ==
    IF i > Len(arr) THEN acc
    ELSE reduceFrom(betterLoan(acc, arr[i]), arr, i + 1)

getBestLoanOption(borrower, dp) ==
    LET valid == validOptions(borrower, dp)
    IN  IF Len(valid) = 0 THEN Null
        ELSE reduceFrom(valid[1], valid, 2)

----------------------------------------------------------------------------
\* calculator.ts: the amortization and net-proceeds functions

calculateMonthlyMortgage(principal, annualRate, years) ==
    LET monthlyRate == annualRate \div 12
        numPayments == years * 12
        growth      == Pow(ONE + monthlyRate, numPayments)
    IN  IF monthlyRate = 0 THEN principal \div numPayments
        ELSE FMul(principal, FDiv(FMul(monthlyRate, growth), growth - ONE))

\* (variant of calculateRemainingBalance: one payment more is counted)
calculateRemainingBalance_paidAhead(principal, annualRate, years, paymentsMade) ==
    LET monthlyRate == annualRate \div 12
        numPayments == years * 12
        growth      == Pow(ONE + monthlyRate, numPayments)
        paid        == Pow(ONE + monthlyRate, paymentsMade + 1)
    IN  IF monthlyRate = 0
        THEN principal - ((principal * (paymentsMade + 1)) \div numPayments)
        ELSE FMul(principal, FDiv(growth - paid, growth - ONE))

calculateRemainingBalance(principal, annualRate, years, paymentsMade) ==
    LET monthlyRate == annualRate \div 12
        numPayments == years * 12
        growth      == Pow(ONE + monthlyRate, numPayments)
        paid        == Pow(ONE + monthlyRate, paymentsMade)
    IN  IF monthlyRate = 0
        THEN principal - ((principal * paymentsMade) \div numPayments)
        ELSE FMul(principal, FDiv(growth - paid, growth - ONE))

\* (variant of ToUSD: the amount is taken as USD already)
ToUSD_unconverted(amount, x) == amount

\* an RMB amount converted to USD (x.exchangeRate is scaled by 100)
ToUSD(amount, x) == (amount * 100) \div x.exchangeRate

calculateXiamenNetProceeds(x) ==
    LET grossUSD == ToUSD(x.marketValue, x)
    IN  FMul(grossUSD, ONE - x.sellingCostRate)

----------------------------------------------------------------------------
\* calculator.ts: calculateScenario

\* the fixed policy numbers of the evaluator
ClosingCostRate == 30000
DefaultInterestRate == 65000
PmiDownPaymentLimit == 200000
DefaultMonthlyIncome == 5000
MortgageYears == 30

\* (variant of heldValue: the held property appreciates 3% a year)
heldValue_appreciating(xiamenValueUSD, years) ==
    FMul(xiamenValueUSD, Pow(ONE + 3 * PCT, years))

\* year5Value: the Xiamen price is assumed not to rise
heldValue(xiamenValueUSD, years) == xiamenValueUSD

\* scenario 1: keep the Xiamen property and rent in SD
holdAndRent(scenario, x, years) ==
    LET xiamenMonthlyRentUSD == ToUSD(x.monthlyRent, x)
        xiamenValueUSD       == ToUSD(x.marketValue, x)
        sdRent               == scenario.sdRentIfNotBuying
        monthlyCashflow      == xiamenMonthlyRentUSD - sdRent
        annualCashflow       == monthlyCashflow * 12
        year5Value           == heldValue(xiamenValueUSD, years)
        totalCashflow5Y      == annualCashflow * years
        year5TotalReturn     == year5Value + totalCashflow5Y - xiamenValueUSD
    IN  [scenario                 |-> scenario,
         initialInvestment        |-> xiamenValueUSD,
         downPayment              |-> 0,
         closingCosts             |-> 0,
         remainingCash            |-> 0,
         monthlyMortgage          |-> 0,
         monthlyHOATax            |-> 0,
         monthlyRentalIncome      |-> xiamenMonthlyRentUSD,
         monthlyImputedRent       |-> 0,
         monthlyTotalIncome       |-> xiamenMonthlyRentUSD,
         monthlyCashflow          |-> monthlyCashflow,
         monthlyEffectiveCashflow |-> monthlyCashflow,
         annualCashflow           |-> annualCashflow,
         annualEffectiveCashflow  |-> annualCashflow,
         cashflowAPY              |-> Percent(annualCashflow, xiamenValueUSD),
         effectiveCashflowAPY     |-> Percent(annualCashflow, xiamenValueUSD),
         year5PropertyValue       |-> year5Value,
         year5Equity              |-> year5Value,
         year5TotalReturn         |-> year5TotalReturn,
         year5ROI                 |-> Percent(year5TotalReturn, xiamenValueUSD),
         year5AnnualizedROI       |->
             AnnualizedPercent(ONE + FDiv(year5TotalReturn, xiamenValueUSD), years),
         dti                      |-> 0,
         mortgageToIncomeRatio    |-> 0]

\* (variant of loanTerms: without a qualifying option the borrower's first
\* option sets the terms)
loanTerms_firstOption(scenario) ==
    LET loanOption == IF scenario.borrower = Null THEN Null
                      ELSE getBestLoanOption(scenario.borrower,
                                             scenario.downPaymentPercent)
    IN  IF loanOption = Null
        THEN IF scenario.borrower = Null \/ Len(scenario.borrower.loanOptions) = 0
             THEN [interestRate |-> DefaultInterestRate, pmi |-> 0]
             ELSE [interestRate |-> scenario.borrower.loanOptions[1].interestRate,
                   pmi |-> scenario.borrower.loanOptions[1].pmi]
        ELSE [interestRate |-> loanOption.interestRate,
              pmi |-> IF loanOption.pmi # 0
                         /\ scenario.downPaymentPercent < PmiDownPaymentLimit
                      THEN loanOption.pmi ELSE 0]

\* (variant of loanTerms: the premium is also charged at the limit itself)
loanTerms_pmiAtLimit(scenario) ==
    LET loanOption == IF scenario.borrower = Null THEN Null
                      ELSE getBestLoanOption(scenario.borrower,
                                             scenario.downPaymentPercent)
    IN  IF loanOption = Null
        THEN [interestRate |-> DefaultInterestRate, pmi |-> 0]
        ELSE [interestRate |-> loanOption.interestRate,
              pmi |-> IF loanOption.pmi # 0
                         /\ scenario.downPaymentPercent <= PmiDownPaymentLimit
                      THEN loanOption.pmi ELSE 0]

\* the loan terms of scenario 2: [interestRate, pmi]
loanTerms(scenario) ==
    LET loanOption == IF scenario.borrower = Null THEN Null
                      ELSE getBestLoanOption(scenario.borrower,
                                             scenario.downPaymentPercent)
    IN  IF loanOption = Null
        THEN [interestRate |-> DefaultInterestRate, pmi |-> 0]
        ELSE [interestRate |-> loanOption.interestRate,
              pmi |-> IF loanOption.pmi # 0
                         /\ scenario.downPaymentPercent < PmiDownPaymentLimit
                      THEN loanOption.pmi ELSE 0]

\* (variant of monthlyTotalIncome: the saved rent is left out)
monthlyTotalIncome_rentOnly(monthlyRentalIncome, monthlyImputedRent) ==
    monthlyRentalIncome

monthlyTotalIncome(monthlyRentalIncome, monthlyImputedRent) ==
    monthlyRentalIncome + monthlyImputedRent

\* scenario.borrower?.monthlyIncome || 5000
incomeOf(scenario) ==
    IF scenario.borrower = Null THEN DefaultMonthlyIncome
    ELSE IF scenario.borrower.monthlyIncome = 0 THEN DefaultMonthlyIncome
    ELSE scenario.borrower.monthlyIncome

\* (variant of totalEffectiveCashflow5Y: the actual cashflow is accumulated)
totalEffectiveCashflow5Y_actual(annualCashflow, annualEffectiveCashflow, years) ==
    annualCashflow * years

\* the cashflow accumulated over the horizon: the effective one
totalEffectiveCashflow5Y(annualCashflow, annualEffectiveCashflow, years) ==
    annualEffectiveCashflow * years

\* (variant of mortgageTerm: the loan is amortized over the analysis horizon)
mortgageTerm_horizon(years) == years

\* the term of calculateMonthlyMortgage(loanAmount, interestRate): the
\* default of its third parameter, whatever the analysis horizon
mortgageTerm(years) == MortgageYears

\* scenario 2: sell the Xiamen property and buy in SD
liquidateAndBuy(scenario, x, years) ==
    LET xiamenNetProceeds   == calculateXiamenNetProceeds(x)
        property            == scenario.sdProperty
        dp                  == scenario.downPaymentPercent
        downPayment         == FMul(property.price, dp)
        closingCosts        == FMul(property.price, ClosingCostRate)
        loanAmount          == property.price - downPayment
        terms               == loanTerms(scenario)
        interestRate        == terms.interestRate
        pmi                 == terms.pmi
        totalInitialCost    == downPayment + closingCosts
        remainingCash       == xiamenNetProceeds - totalInitialCost
        monthlyMortgage     ==
            calculateMonthlyMortgage(loanAmount, interestRate,
                                     mortgageTerm(years))
        monthlyHOATax       == property.hoaAndTax
        monthlyRentalIncome == property.monthlyRent * scenario.roomsToRent
        monthlyImputedRent  == scenario.sdRentIfNotBuying
        totalIncome         ==
            monthlyTotalIncome(monthlyRentalIncome, monthlyImputedRent)
        totalMonthlyPayment == monthlyMortgage + monthlyHOATax + pmi
        monthlyCashflow     == monthlyRentalIncome - totalMonthlyPayment
        monthlyEffectiveCashflow == totalIncome - totalMonthlyPayment
        annualCashflow      == monthlyCashflow * 12
        annualEffectiveCashflow == monthlyEffectiveCashflow * 12
        year5PropertyValue  ==
            FMul(property.price, Pow(ONE + property.appreciationRate, years))
        year5LoanBalance    ==
            calculateRemainingBalance(loanAmount, interestRate, MortgageYears,
                                      years * 12)
        year5Equity         == year5PropertyValue - year5LoanBalance
        totalCashflow5Y     ==
            totalEffectiveCashflow5Y(annualCashflow, annualEffectiveCashflow,
                                     years)
        year5NetWorth       ==
            year5Equity + remainingCash + totalCashflow5Y
        year5TotalReturn    == year5NetWorth - xiamenNetProceeds
        monthlyIncome       == incomeOf(scenario)
    IN  [scenario                 |-> scenario,
         initialInvestment        |-> xiamenNetProceeds,
         downPayment              |-> downPayment,
         closingCosts             |-> closingCosts,
         remainingCash            |-> remainingCash,
         monthlyMortgage          |-> monthlyMortgage,
         monthlyHOATax            |-> monthlyHOATax,
         monthlyRentalIncome      |-> monthlyRentalIncome,
         monthlyImputedRent       |-> monthlyImputedRent,
         monthlyTotalIncome       |-> totalIncome,
         monthlyCashflow          |-> monthlyCashflow,
         monthlyEffectiveCashflow |-> monthlyEffectiveCashflow,
         annualCashflow           |-> annualCashflow,
         annualEffectiveCashflow  |-> annualEffectiveCashflow,
         cashflowAPY              |-> Percent(annualCashflow, totalInitialCost),
         effectiveCashflowAPY     |->
             Percent(annualEffectiveCashflow, totalInitialCost),
         year5PropertyValue       |-> year5PropertyValue,
         year5Equity              |-> year5Equity,
         year5TotalReturn         |-> year5TotalReturn,
         year5ROI                 |-> Percent(year5TotalReturn, xiamenNetProceeds),
         year5AnnualizedROI       |->
             AnnualizedPercent(FDiv(year5NetWorth, xiamenNetProceeds), years),
         dti                      |-> Percent(totalMonthlyPayment, monthlyIncome),
         mortgageToIncomeRatio    |-> Percent(monthlyMortgage, monthlyIncome)]

\* (variant of calculateScenario: the horizon grows with every earlier call)
calculateScenario_stateful(scenario, x, years) ==
    LET horizon == IF call = "init" THEN years ELSE years + 1
    IN  IF ~scenario.sellXiamen \/ scenario.sdProperty = Null
        THEN holdAndRent(scenario, x, horizon)
        ELSE liquidateAndBuy(scenario, x, horizon)

calculateScenario(scenario, x, years) ==
    IF ~scenario.sellXiamen \/ scenario.sdProperty = Null
    THEN holdAndRent(scenario, x, years)
    ELSE liquidateAndBuy(scenario, x, years)

----------------------------------------------------------------------------
\* calculator.ts: findParetoFrontier

\* (variant of dominates: the strict improvement is not required)
dominates_weak(other, result) ==
    /\ other.cashflowAPY >= result.cashflowAPY
    /\ other.year5AnnualizedROI >= result.year5AnnualizedROI

\* the test that marks result as dominated by other
dominates(other, result) ==
    /\ other.cashflowAPY >= result.cashflowAPY
    /\ other.year5AnnualizedROI >= result.year5AnnualizedROI
    /\ \/ other.cashflowAPY > result.cashflowAPY
       \/ other.year5AnnualizedROI > result.year5AnnualizedROI

\* the inner loop; results[j] is the object results[i] only for j = i
isDominated(results, i) ==
    \E j \in 1..Len(results) : j # i /\ dominates(results[j], results[i])

\* the outer loop: the results that are not dominated, in order, from index i
RECURSIVE frontierFrom(_, _)
frontierFrom(results, i) ==
    IF i > Len(results) THEN <<>>
    ELSE (IF isDominated(results, i) THEN <<>> ELSE <<results[i]>>)
         \o frontierFrom(results, i + 1)

\* r inserted into the ascending list q, after the elements that do not
\* compare greater (Array.prototype.sort is stable)
RECURSIVE insertByCashflowAPY(_, _)
insertByCashflowAPY(q, r) ==
    IF q = <<>> THEN <<r>>
    ELSE IF q[Len(q)].cashflowAPY - r.cashflowAPY > 0
         THEN Append(insertByCashflowAPY(SubSeq(q, 1, Len(q) - 1), r), q[Len(q)])
         ELSE Append(q, r)

RECURSIVE sortPrefix(_, _)
sortPrefix(q, n) ==
    IF n = 0 THEN <<>>
    ELSE insertByCashflowAPY(sortPrefix(q, n - 1), q[n])

\* (variant of sortByCashflowAPY: the frontier is returned in input order)
sortByCashflowAPY_unsorted(q) == q

\* frontier.sort((a, b) => a.cashflowAPY - b.cashflowAPY)
sortByCashflowAPY(q) == sortPrefix(q, Len(q))

findParetoFrontier(results) == sortByCashflowAPY(frontierFrom(results, 1))

----------------------------------------------------------------------------
\* The default parameters of the App

defaultXiamen ==
    [marketValue |-> 2800000, monthlyRent |-> 2800,
     exchangeRate |-> 727, sellingCostRate |-> 36000]

defaultSDOptions ==
    << [type |-> "1B1B", price |-> 420000, monthlyRent |-> 1800, rooms |-> 1,
        appreciationRate |-> 20000, hoaAndTax |-> 750],
       [type |-> "2B2B", price |-> 550000, monthlyRent |-> 1200, rooms |-> 2,
        appreciationRate |-> 30000, hoaAndTax |-> 850],
       [type |-> "3B2B", price |-> 750000, monthlyRent |-> 1100, rooms |-> 3,
        appreciationRate |-> 35000, hoaAndTax |-> 1000] >>

defaultCoBorrowers == << [name |-> "JJ", monthlyIncome |-> 3900] >>

LOAN_TYPES ==
    [conventional |-> [name |-> "Conventional", interestRate |-> 62000,
                       minDownPayment |-> 35000, pmi |-> 150],
     va           |-> [name |-> "VA Loan", interestRate |-> 55000,
                       minDownPayment |-> 0, pmi |-> 0]]

\* the borrowers of src/src/App.tsx
defaultBorrowers ==
    << [name |-> "Jinglin", monthlyIncome |-> 3500, loanOptions |->
          << [name |-> "Conventional", type |-> "conventional",
              interestRate |-> 65000, minDownPayment |-> 200000, pmi |-> 150] >>],
       [name |-> "Gavin", monthlyIncome |-> 8000, loanOptions |->
          << [name |-> "Conventional", type |-> "conventional",
              interestRate |-> 65000, minDownPayment |-> 200000, pmi |-> 150] >>],
       [name |-> "Xiaoyu", monthlyIncome |-> 6000, loanOptions |->
          << [name |-> "VA Loan", type |-> "va",
              interestRate |-> 55000, minDownPayment |-> 0, pmi |-> 0],
             [name |-> "Conventional", type |-> "conventional",
              interestRate |-> 65000, minDownPayment |-> 200000, pmi |-> 150] >>] >>

----------------------------------------------------------------------------
\* calculator.ts: generateScenarios and calculateAllScenarios

RECURSIVE Flatten(_)
Flatten(seqs) ==
    IF Len(seqs) = 0 THEN <<>> ELSE Head(seqs) \o Flatten(Tail(seqs))

\* (variant of baselineScenario: the baseline is marked as a sale)
baselineScenario_selling(sdRent) ==
    [id |-> <<"baseline">>, sellXiamen |-> TRUE, sdProperty |-> Null,
     downPaymentPercent |-> 0, borrower |-> Null, roomsToRent |-> 0,
     sdRentIfNotBuying |-> sdRent]

\* The display name of a scenario is a string built from the same values as
\* its id; the model keeps the id, as the tuple of the values it is built from.
baselineScenario(sdRent) ==
    [id |-> <<"baseline">>, sellXiamen |-> FALSE, sdProperty |-> Null,
     downPaymentPercent |-> 0, borrower |-> Null, roomsToRent |-> 0,
     sdRentIfNotBuying |-> sdRent]

\* the scenario pushed by the innermost loop of generateScenarios and of the
\* allResults of src/src/App.tsx
borrowerScenario(property, borrower, dp, rooms, sdRent) ==
    [id |-> <<property.type, borrower.name, dp, rooms>>,
     sellXiamen |-> TRUE, sdProperty |-> property, downPaymentPercent |-> dp,
     borrower |-> borrower, roomsToRent |-> rooms, sdRentIfNotBuying |-> sdRent]

\* for (let rooms = 0; rooms <= property.rooms; rooms++)
borrowerRoomsLoop(property, borrower, dp, sdRent) ==
    [k \in 1..(property.rooms + 1) |->
        borrowerScenario(property, borrower, dp, k - 1, sdRent)]

downPaymentOptions == <<200000, 250000, 300000, 350000, 500000>>

generateScenarios(x, options, borrowerList, sdRent) ==
    <<baselineScenario(sdRent)>> \o
    Flatten([pi \in 1..Len(options) |->
      Flatten([bi \in 1..Len(borrowerList) |->
        Flatten([di \in 1..Len(downPaymentOptions) |->
          IF getBestLoanOption(borrowerList[bi], downPaymentOptions[di]) = Null
          THEN <<>>
          ELSE borrowerRoomsLoop(options[pi], borrowerList[bi],
                                 downPaymentOptions[di], sdRent)])])])

calculateAllScenarios(scenarios, x, years) ==
    [i \in 1..Len(scenarios) |-> calculateScenario(scenarios[i], x, years)]

----------------------------------------------------------------------------
\* The derived values (useMemo) of the App

dpOptions ==
    <<0, 50000, 100000, 150000, 200000, 250000, 300000, 350000, 400000,
      500000, 600000, 700000, 800000>>

\* if (downPayment + closingCosts > xiamenNetProceeds) continue
unaffordable(property, dp, xiamenNetProceeds) ==
    LET downPayment  == FMul(property.price, dp)
        closingCosts == FMul(property.price, ClosingCostRate)
    IN  downPayment + closingCosts > xiamenNetProceeds

\* src/src/App.tsx: for (const dp of dpOptions), from the di-th option on
RECURSIVE downPaymentLoopBorrowers(_, _, _, _, _)
downPaymentLoopBorrowers(x, property, borrower, sdRent, di) ==
    IF di > Len(dpOptions) THEN <<>>
    ELSE (IF getBestLoanOption(borrower, dpOptions[di]) = Null THEN <<>>
          ELSE IF unaffordable(property, dpOptions[di],
                               calculateXiamenNetProceeds(x))
          THEN <<>>
          ELSE borrowerRoomsLoop(property, borrower, dpOptions[di], sdRent))
         \o downPaymentLoopBorrowers(x, property, borrower, sdRent, di + 1)

\* for (let bi = 0; bi < borrowers.length; bi++), from the bi-th borrower on
RECURSIVE borrowerLoop(_, _, _, _, _)
borrowerLoop(x, property, borrowerList, sdRent, bi) ==
    IF bi > Len(borrowerList) THEN <<>>
    ELSE downPaymentLoopBorrowers(x, property, borrowerList[bi], sdRent, 1)
         \o borrowerLoop(x, property, borrowerList, sdRent, bi + 1)

\* for (const property of sdOptions), from the pi-th property on
RECURSIVE propertyLoopBorrowers(_, _, _, _, _)
propertyLoopBorrowers(x, options, borrowerList, sdRent, pi) ==
    IF pi > Len(options) THEN <<>>
    ELSE borrowerLoop(x, options[pi], borrowerList, sdRent, 1)
         \o propertyLoopBorrowers(x, options, borrowerList, sdRent, pi + 1)

\* src/src/App.tsx: the scenarios allResults builds, over the list of
\* borrowers, in the order it evaluates them
allScenariosBorrowers(x, options, borrowerList, sdRent) ==
    <<baselineScenario(sdRent)>>
        \o propertyLoopBorrowers(x, options, borrowerList, sdRent, 1)

\* src/src/App.tsx: allResults; every scenario is handed to
\* calculateScenario as soon as it is built
allResultsBorrowers(x, options, borrowerList, sdRent, years) ==
    LET scenarios == allScenariosBorrowers(x, options, borrowerList, sdRent)
    IN  [i \in 1..Len(scenarios) |-> calculateScenario(scenarios[i], x, years)]

RECURSIVE SumIncome(_)
SumIncome(list) ==
    IF Len(list) = 0 THEN 0 ELSE Head(list).monthlyIncome + SumIncome(Tail(list))

totalMonthlyIncome(borrowerList) == SumIncome(borrowerList)

currentLoanConfig(type, customRate) ==
    [name           |-> LOAN_TYPES[type].name,
     interestRate   |-> IF customRate # Null THEN customRate.value
                        ELSE LOAN_TYPES[type].interestRate,
     minDownPayment |-> LOAN_TYPES[type].minDownPayment,
     pmi            |-> LOAN_TYPES[type].pmi]

\* the name is the list of the co-borrowers' names (joined with ' + ')
currentBorrower(borrowerList, type, customRate) ==
    [name          |-> [i \in 1..Len(borrowerList) |-> borrowerList[i].name],
     monthlyIncome |-> totalMonthlyIncome(borrowerList),
     loanOptions   |->
        << [name           |-> currentLoanConfig(type, customRate).name,
            type           |-> type,
            interestRate   |-> currentLoanConfig(type, customRate).interestRate,
            minDownPayment |-> currentLoanConfig(type, customRate).minDownPayment,
            pmi            |-> currentLoanConfig(type, customRate).pmi] >>]

\* the scenario pushed by the innermost loop of allResults (part_001)
gridScenario(property, borrower, dp, rooms, sdRent) ==
    [id |-> <<property.type, dp, rooms>>,
     sellXiamen |-> TRUE, sdProperty |-> property, downPaymentPercent |-> dp,
     borrower |-> borrower, roomsToRent |-> rooms, sdRentIfNotBuying |-> sdRent]

gridRoomsLoop(property, borrower, dp, sdRent) ==
    [k \in 1..(property.rooms + 1) |->
        gridScenario(property, borrower, dp, k - 1, sdRent)]

\* part_001: for (const dp of dpOptions), from the di-th option on
RECURSIVE downPaymentLoop(_, _, _, _, _)
downPaymentLoop(x, property, borrower, sdRent, di) ==
    IF di > Len(dpOptions) THEN <<>>
    ELSE (IF getBestLoanOption(borrower, dpOptions[di]) = Null THEN <<>>
          ELSE IF unaffordable(property, dpOptions[di],
                               calculateXiamenNetProceeds(x))
          THEN <<>>
          ELSE gridRoomsLoop(property, borrower, dpOptions[di], sdRent))
         \o downPaymentLoop(x, property, borrower, sdRent, di + 1)

\* part_001: for (const property of sdOptions), from the pi-th property on
RECURSIVE propertyLoop(_, _, _, _, _)
propertyLoop(x, options, borrower, sdRent, pi) ==
    IF pi > Len(options) THEN <<>>
    ELSE downPaymentLoop(x, options[pi], borrower, sdRent, 1)
         \o propertyLoop(x, options, borrower, sdRent, pi + 1)

\* part_001: the scenarios allResults builds, in the order it evaluates them
allScenarios(x, options, borrower, sdRent) ==
    <<baselineScenario(sdRent)>> \o propertyLoop(x, options, borrower, sdRent, 1)

\* part_001: allResults, for the current borrower; every scenario is handed
\* to calculateScenario as soon as it is built
allResults(x, options, borrower, sdRent, years) ==
    LET scenarios == allScenarios(x, options, borrower, sdRent)
    IN  [i \in 1..Len(scenarios) |-> calculateScenario(scenarios[i], x, years)]

DtiLimit == 43 * PCT

\* currentResult.dti > 43: the card is drawn as a warning
dtiWarning(dti) == dti > DtiLimit

\* r.dti < 43: the result is kept for the plot
passesDtiFilter(dti) == dti < DtiLimit

\* paretoData: the points handed to the scatter plot
paretoData(results) ==
    LET kept == SelectSeq(results,
                          LAMBDA r : r.scenario.sellXiamen
                                         /\ passesDtiFilter(r.dti))
    IN  [i \in 1..Len(kept) |->
            [cashflowAPY |-> kept[i].effectiveCashflowAPY,
             year5ROI    |-> kept[i].year5AnnualizedROI,
             id          |-> kept[i].scenario.id]]

----------------------------------------------------------------------------
\* Bounds of the loan-selection inputs

MaxLoanOptions == 3

LoanRates == {55000, 65000}
LoanMinDowns == {0, 35000, 200000}
LoanDownPayments == {0, 50000, 200000, 500000}

\* a loan option; its name records its position in the borrower's list
LoanOptionAt(i, rate, minDown) ==
    [name |-> i, type |-> "conventional", interestRate |-> rate,
     minDownPayment |-> minDown, pmi |-> 150]

LoanOptionLists ==
    UNION { { [i \in 1..n |-> LoanOptionAt(i, f[i][1], f[i][2])] :
                f \in [1..n -> LoanRates \X LoanMinDowns] } :
            n \in 0..MaxLoanOptions }

InitApp ==
    /\ xiamen = defaultXiamen
    /\ sdOptions = defaultSDOptions
    /\ sdRentIfNotBuying = 850
    /\ analysisYears = 5
    /\ loanType = "va"
    /\ coBorrowers = defaultCoBorrowers
    /\ customInterestRate = Null
    /\ newBorrowerName = ""
    /\ newBorrowerIncome = ""
    /\ selectedPropertyType = "2B2B"
    /\ downPaymentPercent = 200000
    /\ roomsToRent = 2
    /\ stockReturnRate = 60000
    /\ edits = 0

\* ---- specification of the calls of getBestLoanOption ----
\* In the specifications of the calls of the exported functions the App
\* variables keep their initial values.
InitLoan ==
    /\ InitApp
    /\ inp \in { [borrower |-> [name |-> "B", monthlyIncome |-> 5000,
                                loanOptions |-> l],
                  dp |-> d] : l \in LoanOptionLists, d \in LoanDownPayments }
    /\ call = "init"
    /\ ret = Null

CallGetBestLoanOption ==
    /\ call = "init"
    /\ ret' = getBestLoanOption(inp.borrower, inp.dp)
    /\ call' = "getBestLoanOption"
    /\ UNCHANGED <<inp, appVars>>

NextLoan == CallGetBestLoanOption

SpecLoan == InitLoan /\ [][NextLoan]_vars

\* the options of the borrower that qualify for the down payment dp
Qualifying(borrower, dp) ==
    { i \in 1..Len(borrower.loanOptions) :
        borrower.loanOptions[i].minDownPayment <= dp }

\* C1: getBestLoanOption never returns an option whose minDownPayment exceeds
\* dp; a returned option has the lowest interestRate among the borrower's
\* options with minDownPayment <= dp, and among several qualifying options of
\* that lowest rate it is the one that comes first in borrower.loanOptions.
C1_BestLoanIsFirstCheapestQualifying ==
    (call = "getBestLoanOption" /\ ret # Null) =>
        LET opts == inp.borrower.loanOptions
        IN  /\ ret.minDownPayment <= inp.dp
            /\ \A i \in Qualifying(inp.borrower, inp.dp) :
                  /\ ret.interestRate <= opts[i].interestRate
                  /\ opts[i].interestRate = ret.interestRate => ret.name <= i

\* C1 witness: two qualifying options share the lowest rate, a cheaper option
\* does not qualify, and the first of the two was returned.
C1_Witness ==
    /\ call = "getBestLoanOption"
    /\ ret # Null
    /\ LET opts == inp.borrower.loanOptions
       IN  /\ \E i \in Qualifying(inp.borrower, inp.dp) :
                 i > ret.name /\ opts[i].interestRate = ret.interestRate
           /\ \E j \in 1..Len(opts) :
                 /\ opts[j].minDownPayment > inp.dp
                 /\ opts[j].interestRate < ret.interestRate

\* C2: getBestLoanOption returns null exactly when the borrower has no loan
\* option with minDownPayment <= dp (an empty loanOptions included);
\* otherwise it returns a member of borrower.loanOptions.
C2_NullIffNoneQualifies ==
    call = "getBestLoanOption" =>
        /\ (ret = Null) <=> (Qualifying(inp.borrower, inp.dp) = {})
        /\ ret # Null =>
              \E i \in 1..Len(inp.borrower.loanOptions) :
                  ret = inp.borrower.loanOptions[i]

\* C2 witness: the borrower has loan options, none qualifies, null returned.
C2_Witness ==
    /\ call = "getBestLoanOption"
    /\ Len(inp.borrower.loanOptions) > 0
    /\ Qualifying(inp.borrower, inp.dp) = {}
    /\ ret = Null

----------------------------------------------------------------------------
\* ---- specification of the calls of calculateScenario ----

CalcDownPayments == {0, 50000, 200000, 500000}
CalcRents == {0, 850}
CalcYears == {3, 5}
CalcIncomes == {0, 3900}
CalcBorrowers ==
    {Null} \cup SeqToSet(defaultBorrowers)
           \cup { [name |-> "JJ", monthlyIncome |-> m, loanOptions |->
                     << [name |-> "Conventional", type |-> "conventional",
                         interestRate |-> 62000, minDownPayment |-> 35000,
                         pmi |-> 150] >>] : m \in CalcIncomes }

CalcScenarios ==
    { baselineScenario(r) : r \in CalcRents }
    \cup { [id |-> <<"current">>, sellXiamen |-> sell, sdProperty |-> p,
            downPaymentPercent |-> d, borrower |-> b, roomsToRent |-> n,
            sdRentIfNotBuying |-> r] :
           sell \in BOOLEAN, p \in SeqToSet(defaultSDOptions) \cup {Null},
           d \in CalcDownPayments, b \in CalcBorrowers, n \in 0..1,
           r \in CalcRents }

InitCalc ==
    /\ InitApp
    /\ inp \in { [scenario |-> sc, xiamen |-> defaultXiamen, analysisYears |-> y] :
                 sc \in CalcScenarios, y \in CalcYears }
    /\ call = "init"
    /\ ret = Null

CallCalculateScenario ==
    /\ call = "init"
    /\ ret' = calculateScenario(inp.scenario, inp.xiamen, inp.analysisYears)
    /\ call' = "calculateScenario"
    /\ UNCHANGED <<inp, appVars>>

\* the same scenario, source property and horizon are evaluated once more
CallCalculateScenarioAgain ==
    /\ call = "calculateScenario"
    /\ ret' = [first  |-> ret,
               second |-> calculateScenario(inp.scenario, inp.xiamen,
                                            inp.analysisYears)]
    /\ call' = "calculateScenarioTwice"
    /\ UNCHANGED <<inp, appVars>>

NextCalc == CallCalculateScenario \/ CallCalculateScenarioAgain

SpecCalc == InitCalc /\ [][NextCalc]_vars

\* the call evaluated the liquidate-and-buy branch
BuyBranch ==
    /\ call = "calculateScenario"
    /\ inp.scenario.sellXiamen
    /\ inp.scenario.sdProperty # Null

\* C3: for every scenario evaluated in the liquidate-and-buy branch,
\* monthlyEffectiveCashflow - monthlyCashflow equals monthlyImputedRent, which
\* equals the scenario's sdRentIfNotBuying.
C3_EffectiveMinusActualIsImputedRent ==
    BuyBranch =>
        /\ ret.monthlyEffectiveCashflow - ret.monthlyCashflow
              = ret.monthlyImputedRent
        /\ ret.monthlyImputedRent = inp.scenario.sdRentIfNotBuying

\* C3 witness: a buy scenario with a positive saved rent and a rented room.
C3_Witness ==
    /\ BuyBranch
    /\ inp.scenario.sdRentIfNotBuying > 0
    /\ inp.scenario.roomsToRent > 0
    /\ ret.monthlyEffectiveCashflow # ret.monthlyCashflow

----------------------------------------------------------------------------
\* ---- specification of the calls of findParetoFrontier ----

MaxResults == 3

ParetoValues == {1 * PCT, 2 * PCT}
ParetoDtis == {42 * PCT, 43 * PCT}

\* the fields of a CalculationResult that the selector and the plot read;
\* id tells the objects of the list apart
ParetoResultAt(i, v) ==
    [id |-> i, cashflowAPY |-> v[1], effectiveCashflowAPY |-> v[2],
     year5AnnualizedROI |-> v[3], dti |-> v[4]]

ParetoResultValues ==
    ParetoValues \X ParetoValues \X ParetoValues \X ParetoDtis

InitPareto ==
    /\ InitApp
    /\ \E n \in 0..MaxResults :
          \E f \in [1..n -> ParetoResultValues] :
              inp = [results |-> [i \in 1..n |-> ParetoResultAt(i, f[i])]]
    /\ call = "init"
    /\ ret = Null

CallFindParetoFrontier ==
    /\ call = "init"
    /\ ret' = findParetoFrontier(inp.results)
    /\ call' = "findParetoFrontier"
    /\ UNCHANGED <<inp, appVars>>

NextPareto == CallFindParetoFrontier

SpecPareto == InitPareto /\ [][NextPareto]_vars

\* B dominates A on the objectives (o1, o2) of the claims
Dominates(b1, b2, a1, a2) ==
    b1 >= a1 /\ b2 >= a2 /\ (b1 > a1 \/ b2 > a2)

DominatesOnActual(b, a) ==
    Dominates(b.cashflowAPY, b.year5AnnualizedROI,
              a.cashflowAPY, a.year5AnnualizedROI)

DominatesOnEffective(b, a) ==
    Dominates(b.effectiveCashflowAPY, b.year5AnnualizedROI,
              a.effectiveCashflowAPY, a.year5AnnualizedROI)

\* C4: findParetoFrontier returns a subset of its input such that (a) no
\* returned result is dominated by any result of the input and (b) every
\* input result that is not returned is dominated by a returned result.
C4_FrontierIsNonDominatedAndCovering ==
    call = "findParetoFrontier" =>
        LET input    == SeqToSet(inp.results)
            returned == SeqToSet(ret)
        IN  /\ returned \subseteq input
            /\ Len(ret) = Cardinality(returned)
            /\ \A r \in returned : \A o \in input : ~DominatesOnActual(o, r)
            /\ \A a \in input \ returned :
                  \E r \in returned : DominatesOnActual(r, a)

\* C4 witness: one result is returned and covers a chain: it dominates a
\* result that dominates a third one, and neither of the two is returned.
C4_Witness ==
    /\ call = "findParetoFrontier"
    /\ Len(inp.results) = 3
    /\ Len(ret) = 1
    /\ \E a, b \in SeqToSet(inp.results) :
          /\ DominatesOnActual(ret[1], b)
          /\ DominatesOnActual(b, a)
          /\ a # ret[1]

\* C5: the selector compares on effectiveCashflowAPY and year5AnnualizedROI
\* and considers only results with dti < 43: it returns exactly the results
\* with dti < 43 that no other result with dti < 43 dominates on these two
\* objectives, so a result with dti >= 43 is never returned and never causes
\* another result to be excluded.
C5_EffectiveObjectivesAndDtiFilter ==
    call = "findParetoFrontier" =>
        LET feasible == { r \in SeqToSet(inp.results) : r.dti < 43 * PCT }
        IN  SeqToSet(ret) =
                { r \in feasible :
                    \A o \in feasible : ~DominatesOnEffective(o, r) }

\* C6: the returned list is ascending in the first objective.
C6_FrontierAscendingInFirstObjective ==
    call = "findParetoFrontier" =>
        \A i \in 1..(Len(ret) - 1) : ret[i].cashflowAPY <= ret[i + 1].cashflowAPY

\* C6 witness: two results are returned in the reverse of their input order.
C6_Witness ==
    /\ call = "findParetoFrontier"
    /\ Len(ret) >= 2
    /\ ret[1].cashflowAPY < ret[2].cashflowAPY
    /\ ret[1].id > ret[2].id

----------------------------------------------------------------------------
\* ---- specification of the scenario-space generators ----
\* generateScenarios (followed by calculateAllScenarios) and the two
\* allResults computations, each applied to the same inputs.

MaxProperties == 2
MaxBorrowers == 2

\* the lists of at most n distinct elements of S
DistinctLists(S, n) ==
    { q \in UNION { [1..k -> S] : k \in 0..n } :
        \A i, j \in 1..Len(q) : i # j => q[i] # q[j] }

GridBorrowers == { defaultBorrowers[1], defaultBorrowers[3] }
GridXiamens == { defaultXiamen, [defaultXiamen EXCEPT !.marketValue = 50000] }
GridLoanTypes == { "conventional", "va" }

InitGrid ==
    /\ InitApp
    /\ inp \in { [xiamen |-> x, sdOptions |-> o, borrowers |-> b,
                  sdRentIfNotBuying |-> 850, analysisYears |-> 5,
                  coBorrowers |-> defaultCoBorrowers, loanType |-> t,
                  customInterestRate |-> Null] :
                 x \in GridXiamens,
                 o \in DistinctLists(SeqToSet(defaultSDOptions), MaxProperties),
                 b \in DistinctLists(GridBorrowers, MaxBorrowers),
                 t \in GridLoanTypes }
    /\ call = "init"
    /\ ret = Null

CallGenerateScenarios ==
    /\ call = "init"
    /\ ret' = calculateAllScenarios(
                  generateScenarios(inp.xiamen, inp.sdOptions, inp.borrowers,
                                    inp.sdRentIfNotBuying),
                  inp.xiamen, inp.analysisYears)
    /\ call' = "generateScenarios"
    /\ UNCHANGED <<inp, appVars>>

CallAllResultsBorrowers ==
    /\ call = "init"
    /\ ret' = allResultsBorrowers(inp.xiamen, inp.sdOptions, inp.borrowers,
                                  inp.sdRentIfNotBuying, inp.analysisYears)
    /\ call' = "allResultsBorrowers"
    /\ UNCHANGED <<inp, appVars>>

CallAllResults ==
    /\ call = "init"
    /\ ret' = allResults(inp.xiamen, inp.sdOptions,
                         currentBorrower(inp.coBorrowers, inp.loanType,
                                         inp.customInterestRate),
                         inp.sdRentIfNotBuying, inp.analysisYears)
    /\ call' = "allResults"
    /\ UNCHANGED <<inp, appVars>>

NextGrid ==
    \/ CallGenerateScenarios
    \/ CallAllResultsBorrowers
    \/ CallAllResults

SpecGrid == InitGrid /\ [][NextGrid]_vars

GridCalls == {"generateScenarios", "allResultsBorrowers", "allResults"}

\* the borrowers a generator enumerates
GridBorrowerAxis ==
    IF call = "allResults"
    THEN { currentBorrower(inp.coBorrowers, inp.loanType,
                           inp.customInterestRate) }
    ELSE SeqToSet(inp.borrowers)

\* the down-payment fractions 0, 5, ..., 40, 50, 60, 70, 80 %
DocumentedDownPayments ==
    { 50000 * k : k \in 0..8 } \cup { 100000 * k : k \in 5..8 }

\* the combination the scenario s stands for
Combination(s) ==
    <<s.sdProperty, s.downPaymentPercent, s.borrower, s.roomsToRent>>

\* the combinations that qualify for a loan and pass the affordability gate
FeasibleCombinations ==
    { <<p, d, b, n>> :
        p \in SeqToSet(inp.sdOptions), d \in DocumentedDownPayments,
        b \in GridBorrowerAxis, n \in 0..3 } \cap
    { t \in SeqToSet(inp.sdOptions) \X DocumentedDownPayments
              \X GridBorrowerAxis \X (0..3) :
        /\ t[4] <= t[1].rooms
        /\ \E i \in 1..Len(t[3].loanOptions) :
              t[3].loanOptions[i].minDownPayment <= t[2]
        /\ FMul(t[1].price, t[2]) + FMul(t[1].price, 30000)
              <= calculateXiamenNetProceeds(inp.xiamen) }

\* C8: every generator skips the combinations whose downPayment +
\* closingCosts exceeds the net proceeds, so every non-baseline result of the
\* grid has remainingCash >= 0.
C8_GridResultsAreAffordable ==
    call \in GridCalls =>
        \A i \in 1..Len(ret) :
            ret[i].scenario.sellXiamen =>
                /\ ret[i].downPayment + ret[i].closingCosts
                      <= calculateXiamenNetProceeds(inp.xiamen)
                /\ ret[i].remainingCash >= 0

\* C9: besides the baseline, the grid holds exactly one scenario for each
\* combination (property, documented down-payment fraction, borrower, rooms
\* in 0..property.rooms) that qualifies for a loan and passes the
\* affordability gate, and no scenario for any other combination.
C9_GridIsExactlyTheFeasibleCombinations ==
    call \in GridCalls =>
        LET buy == { i \in 1..Len(ret) : ret[i].scenario.sellXiamen }
        IN  /\ \A i \in buy : Combination(ret[i].scenario) \in FeasibleCombinations
            /\ \A t \in FeasibleCombinations :
                  Cardinality({ i \in buy : Combination(ret[i].scenario) = t }) = 1

\* C10: for every input the generated set holds exactly one scenario with
\* sellXiamen = false, and that scenario is the baseline.
C10_ExactlyOneBaseline ==
    call \in GridCalls =>
        LET hold == { i \in 1..Len(ret) : ~ret[i].scenario.sellXiamen }
        IN  /\ Cardinality(hold) = 1
            /\ \A i \in hold :
                  ret[i].scenario = baselineScenario(inp.sdRentIfNotBuying)

\* C10 witness: properties and borrowers are given, every combination is
\* pruned, and the result holds the baseline alone.
C10_Witness ==
    /\ call = "allResultsBorrowers"
    /\ Len(inp.sdOptions) > 0
    /\ Len(inp.borrowers) > 0
    /\ Len(ret) = 1
    /\ ~ret[1].scenario.sellXiamen

----------------------------------------------------------------------------
\* ---- specification of the App component (part_001) ----
\* One action per event handler; the values typed or chosen are drawn from
\* small sets that keep every denominator of the evaluator positive.

MaxEdits == 3

MarketValueInputs == {200, 280}
XiamenRentInputs == {2800, 3500}
ExchangeRateInputs == {700, 727}
SDRentInputs == {850, 1200}
PriceInputs == {400000}
PropertyRentInputs == {1500}
AppreciationInputs == {40000}
HoaAndTaxInputs == {900}
InterestRateInputs == {60000}
BorrowerNameInputs == {"", " ", "Gavin"}
BorrowerIncomeInputs == {"", "8000"}

\* Number(text), on the texts of BorrowerIncomeInputs
Number(text) == IF text = "8000" THEN 8000 ELSE 0
DownPaymentInputs == {0, 50000, 200000, 800000}
AnalysisYearsOptions == {3, 5, 7, 10}
StockReturnInputs == {60000, 80000}
PropertyTypes == {"1B1B", "2B2B", "3B2B"}
LoanTypeOptions == {"conventional", "va"}

\* sdOptions.find(p => p.type === type)
findProperty(options, type) ==
    options[CHOOSE i \in 1..Len(options) :
                /\ options[i].type = type
                /\ \A j \in 1..(i - 1) : options[j].type # type]

selectedProperty == findProperty(sdOptions, selectedPropertyType)

\* String.prototype.trim, on the names of BorrowerNameInputs
trim(name) == IF name = " " THEN "" ELSE name

Init ==
    /\ InitApp
    /\ inp = Null
    /\ call = "render"
    /\ ret = Null

Edit ==
    /\ edits < MaxEdits
    /\ edits' = edits + 1
    /\ UNCHANGED callVars

SetMarketValue ==
    \E v \in MarketValueInputs :
        /\ Edit
        /\ xiamen' = [xiamen EXCEPT !.marketValue = v * 10000]
        /\ UNCHANGED <<sdOptions, sdRentIfNotBuying, analysisYears, loanType,
                       coBorrowers, customInterestRate, newBorrowerName,
                       newBorrowerIncome, selectedPropertyType,
                       downPaymentPercent, roomsToRent, stockReturnRate>>

SetXiamenMonthlyRent ==
    \E v \in XiamenRentInputs :
        /\ Edit
        /\ xiamen' = [xiamen EXCEPT !.monthlyRent = v]
        /\ UNCHANGED <<sdOptions, sdRentIfNotBuying, analysisYears, loanType,
                       coBorrowers, customInterestRate, newBorrowerName,
                       newBorrowerIncome, selectedPropertyType,
                       downPaymentPercent, roomsToRent, stockReturnRate>>

SetExchangeRate ==
    \E v \in ExchangeRateInputs :
        /\ Edit
        /\ xiamen' = [xiamen EXCEPT !.exchangeRate = v]
        /\ UNCHANGED <<sdOptions, sdRentIfNotBuying, analysisYears, loanType,
                       coBorrowers, customInterestRate, newBorrowerName,
                       newBorrowerIncome, selectedPropertyType,
                       downPaymentPercent, roomsToRent, stockReturnRate>>

SetSDRentIfNotBuying ==
    \E v \in SDRentInputs :
        /\ Edit
        /\ sdRentIfNotBuying' = v
        /\ UNCHANGED <<xiamen, sdOptions, analysisYears, loanType,
                       coBorrowers, customInterestRate, newBorrowerName,
                       newBorrowerIncome, selectedPropertyType,
                       downPaymentPercent, roomsToRent, stockReturnRate>>

\* (variant of SelectPropertyType: the rented rooms are kept as they are)
SelectPropertyType_unclamped ==
    \E t \in PropertyTypes :
        /\ Edit
        /\ selectedPropertyType' = t
        /\ UNCHANGED <<xiamen, sdOptions, sdRentIfNotBuying, analysisYears,
                       loanType, coBorrowers, customInterestRate,
                       newBorrowerName, newBorrowerIncome, downPaymentPercent,
                       roomsToRent, stockReturnRate>>

SelectPropertyType ==
    \E t \in PropertyTypes :
        /\ Edit
        /\ selectedPropertyType' = t
        /\ roomsToRent' = Min(roomsToRent, findProperty(sdOptions, t).rooms)
        /\ UNCHANGED <<xiamen, sdOptions, sdRentIfNotBuying, analysisYears,
                       loanType, coBorrowers, customInterestRate,
                       newBorrowerName, newBorrowerIncome, downPaymentPercent,
                       stockReturnRate>>

\* sdOptions.map(p => p.type === selectedPropertyType ? {...p, [field]: v} : p)
withSelected(field, v) ==
    [i \in 1..Len(sdOptions) |->
        IF sdOptions[i].type = selectedPropertyType
        THEN [sdOptions[i] EXCEPT ![field] = v]
        ELSE sdOptions[i]]

SetPrice ==
    \E v \in PriceInputs :
        /\ Edit
        /\ sdOptions' = withSelected("price", v)
        /\ UNCHANGED <<xiamen, sdRentIfNotBuying, analysisYears, loanType,
                       coBorrowers, customInterestRate, newBorrowerName,
                       newBorrowerIncome, selectedPropertyType,
                       downPaymentPercent, roomsToRent, stockReturnRate>>

SetPropertyMonthlyRent ==
    \E v \in PropertyRentInputs :
        /\ Edit
        /\ sdOptions' = withSelected("monthlyRent", v)
        /\ UNCHANGED <<xiamen, sdRentIfNotBuying, analysisYears, loanType,
                       coBorrowers, customInterestRate, newBorrowerName,
                       newBorrowerIncome, selectedPropertyType,
                       downPaymentPercent, roomsToRent, stockReturnRate>>

SetAppreciationRate ==
    \E v \in AppreciationInputs :
        /\ Edit
        /\ sdOptions' = withSelected("appreciationRate", v)
        /\ UNCHANGED <<xiamen, sdRentIfNotBuying, analysisYears, loanType,
                       coBorrowers, customInterestRate, newBorrowerName,
                       newBorrowerIncome, selectedPropertyType,
                       downPaymentPercent, roomsToRent, stockReturnRate>>

SetHoaAndTax ==
    \E v \in HoaAndTaxInputs :
        /\ Edit
        /\ sdOptions' = withSelected("hoaAndTax", v)
        /\ UNCHANGED <<xiamen, sdRentIfNotBuying, analysisYears, loanType,
                       coBorrowers, customInterestRate, newBorrowerName,
                       newBorrowerIncome, selectedPropertyType,
                       downPaymentPercent, roomsToRent, stockReturnRate>>

\* (variant of SetLoanType: the custom interest rate is kept)
SetLoanType_keepingRate ==
    \E t \in LoanTypeOptions :
        /\ Edit
        /\ loanType' = t
        /\ UNCHANGED <<xiamen, sdOptions, sdRentIfNotBuying, analysisYears,
                       coBorrowers, customInterestRate, newBorrowerName,
                       newBorrowerIncome, selectedPropertyType,
                       downPaymentPercent, roomsToRent, stockReturnRate>>

SetLoanType ==
    \E t \in LoanTypeOptions :
        /\ Edit
        /\ loanType' = t
        /\ customInterestRate' = Null
        /\ UNCHANGED <<xiamen, sdOptions, sdRentIfNotBuying, analysisYears,
                       coBorrowers, newBorrowerName, newBorrowerIncome,
                       selectedPropertyType, downPaymentPercent, roomsToRent,
                       stockReturnRate>>

SetCustomInterestRate ==
    \E v \in InterestRateInputs :
        /\ Edit
        /\ customInterestRate' = [value |-> v]
        /\ UNCHANGED <<xiamen, sdOptions, sdRentIfNotBuying, analysisYears,
                       loanType, coBorrowers, newBorrowerName,
                       newBorrowerIncome, selectedPropertyType,
                       downPaymentPercent, roomsToRent, stockReturnRate>>

SetNewBorrowerName ==
    \E v \in BorrowerNameInputs :
        /\ Edit
        /\ newBorrowerName' = v
        /\ UNCHANGED <<xiamen, sdOptions, sdRentIfNotBuying, analysisYears,
                       loanType, coBorrowers, customInterestRate,
                       newBorrowerIncome, selectedPropertyType,
                       downPaymentPercent, roomsToRent, stockReturnRate>>

SetNewBorrowerIncome ==
    \E v \in BorrowerIncomeInputs :
        /\ Edit
        /\ newBorrowerIncome' = v
        /\ UNCHANGED <<xiamen, sdOptions, sdRentIfNotBuying, analysisYears,
                       loanType, coBorrowers, customInterestRate,
                       newBorrowerName, selectedPropertyType,
                       downPaymentPercent, roomsToRent, stockReturnRate>>

\* handleAddBorrower; the button is disabled under the negated condition
handleAddBorrower ==
    /\ Edit
    /\ IF trim(newBorrowerName) # "" /\ newBorrowerIncome # ""
       THEN /\ coBorrowers' = Append(coBorrowers,
                                     [name |-> trim(newBorrowerName),
                                      monthlyIncome |-> Number(newBorrowerIncome)])
            /\ newBorrowerName' = ""
            /\ newBorrowerIncome' = ""
       ELSE UNCHANGED <<coBorrowers, newBorrowerName, newBorrowerIncome>>
    /\ UNCHANGED <<xiamen, sdOptions, sdRentIfNotBuying, analysisYears,
                   loanType, customInterestRate, selectedPropertyType,
                   downPaymentPercent, roomsToRent, stockReturnRate>>

\* coBorrowers.filter((_, i) => i !== index)
removeAt(list, index) ==
    [i \in 1..(Len(list) - 1) |-> IF i < index THEN list[i] ELSE list[i + 1]]

\* (variant of handleRemoveBorrower: the last borrower can be removed too)
handleRemoveBorrower_unguarded ==
    \E index \in 1..Len(coBorrowers) :
        /\ Edit
        /\ coBorrowers' = removeAt(coBorrowers, index)
        /\ UNCHANGED <<xiamen, sdOptions, sdRentIfNotBuying, analysisYears,
                       loanType, customInterestRate, newBorrowerName,
                       newBorrowerIncome, selectedPropertyType,
                       downPaymentPercent, roomsToRent, stockReturnRate>>

handleRemoveBorrower ==
    \E index \in 1..Len(coBorrowers) :
        /\ Edit
        /\ IF Len(coBorrowers) > 1
           THEN coBorrowers' = removeAt(coBorrowers, index)
           ELSE UNCHANGED coBorrowers
        /\ UNCHANGED <<xiamen, sdOptions, sdRentIfNotBuying, analysisYears,
                       loanType, customInterestRate, newBorrowerName,
                       newBorrowerIncome, selectedPropertyType,
                       downPaymentPercent, roomsToRent, stockReturnRate>>

SetDownPaymentPercent ==
    \E v \in DownPaymentInputs :
        /\ Edit
        /\ downPaymentPercent' = v
        /\ UNCHANGED <<xiamen, sdOptions, sdRentIfNotBuying, analysisYears,
                       loanType, coBorrowers, customInterestRate,
                       newBorrowerName, newBorrowerIncome,
                       selectedPropertyType, roomsToRent, stockReturnRate>>

\* the slider ranges over 0..selectedProperty.rooms
SetRoomsToRent ==
    \E v \in 0..selectedProperty.rooms :
        /\ Edit
        /\ roomsToRent' = v
        /\ UNCHANGED <<xiamen, sdOptions, sdRentIfNotBuying, analysisYears,
                       loanType, coBorrowers, customInterestRate,
                       newBorrowerName, newBorrowerIncome,
                       selectedPropertyType, downPaymentPercent,
                       stockReturnRate>>

SetAnalysisYears ==
    \E v \in AnalysisYearsOptions :
        /\ Edit
        /\ analysisYears' = v
        /\ UNCHANGED <<xiamen, sdOptions, sdRentIfNotBuying, loanType,
                       coBorrowers, customInterestRate, newBorrowerName,
                       newBorrowerIncome, selectedPropertyType,
                       downPaymentPercent, roomsToRent, stockReturnRate>>

SetStockReturnRate ==
    \E v \in StockReturnInputs :
        /\ Edit
        /\ stockReturnRate' = v
        /\ UNCHANGED <<xiamen, sdOptions, sdRentIfNotBuying, analysisYears,
                       loanType, coBorrowers, customInterestRate,
                       newBorrowerName, newBorrowerIncome,
                       selectedPropertyType, downPaymentPercent, roomsToRent>>

Next ==
    \/ SetMarketValue
    \/ SetXiamenMonthlyRent
    \/ SetExchangeRate
    \/ SetSDRentIfNotBuying
    \/ SelectPropertyType
    \/ SetPrice
    \/ SetPropertyMonthlyRent
    \/ SetAppreciationRate
    \/ SetHoaAndTax
    \/ SetLoanType
    \/ SetCustomInterestRate
    \/ SetNewBorrowerName
    \/ SetNewBorrowerIncome
    \/ handleAddBorrower
    \/ handleRemoveBorrower
    \/ SetDownPaymentPercent
    \/ SetRoomsToRent
    \/ SetAnalysisYears
    \/ SetStockReturnRate

Spec == Init /\ [][Next]_vars

\* the values the App derives from its state on every render
appBorrower == currentBorrower(coBorrowers, loanType, customInterestRate)

appScenarios == allScenarios(xiamen, sdOptions, appBorrower, sdRentIfNotBuying)

appResults ==
    allResults(xiamen, sdOptions, appBorrower, sdRentIfNotBuying, analysisYears)

\* (variant of currentScenario: no borrower is attached)
currentScenario_noBorrower(options, type, dp, borrower, rooms, sdRent) ==
    LET property == findProperty(options, type)
    IN  [id |-> <<"current">>, sellXiamen |-> TRUE, sdProperty |-> property,
         downPaymentPercent |-> dp, borrower |-> Null,
         roomsToRent |-> Min(rooms, property.rooms),
         sdRentIfNotBuying |-> sdRent]

\* (variant of currentScenario: the saved rent is left out)
currentScenario_noSavedRent(options, type, dp, borrower, rooms, sdRent) ==
    LET property == findProperty(options, type)
    IN  [id |-> <<"current">>, sellXiamen |-> TRUE, sdProperty |-> property,
         downPaymentPercent |-> dp, borrower |-> borrower,
         roomsToRent |-> Min(rooms, property.rooms),
         sdRentIfNotBuying |-> 0]

\* the scenario built by currentResult
currentScenario(options, type, dp, borrower, rooms, sdRent) ==
    LET property == findProperty(options, type)
    IN  [id |-> <<"current">>, sellXiamen |-> TRUE, sdProperty |-> property,
         downPaymentPercent |-> dp, borrower |-> borrower,
         roomsToRent |-> Min(rooms, property.rooms),
         sdRentIfNotBuying |-> sdRent]

\* (variant of currentResult: a selection the proceeds cannot pay for is
\* rejected)
currentResult_rejecting(x, options, type, dp, borrower, rooms, sdRent, years) ==
    IF unaffordable(findProperty(options, type), dp,
                    calculateXiamenNetProceeds(x))
    THEN Null
    ELSE calculateScenario(
             currentScenario(options, type, dp, borrower, rooms, sdRent),
             x, years)

currentResult(x, options, type, dp, borrower, rooms, sdRent, years) ==
    calculateScenario(currentScenario(options, type, dp, borrower, rooms, sdRent),
                      x, years)

appCurrentScenario ==
    currentScenario(sdOptions, selectedPropertyType, downPaymentPercent,
                    appBorrower, roomsToRent, sdRentIfNotBuying)

appCurrentResult ==
    currentResult(xiamen, sdOptions, selectedPropertyType, downPaymentPercent,
                  appBorrower, roomsToRent, sdRentIfNotBuying, analysisYears)

\* the buy results of the grid that pass the plot's dti filter
FilteredGrid ==
    { r \in SeqToSet(appResults) : r.scenario.sellXiamen /\ r.dti < 43 * PCT }

\* C7: the points handed to the plot (paretoData) are a Pareto frontier: no
\* point is dominated on (effectiveCashflowAPY, year5AnnualizedROI) by
\* another result of the filtered grid.
C7_ParetoDataIsAFrontier ==
    \A i \in 1..Len(paretoData(appResults)) :
        \A o \in FilteredGrid :
            ~Dominates(o.effectiveCashflowAPY, o.year5AnnualizedROI,
                       paretoData(appResults)[i].cashflowAPY,
                       paretoData(appResults)[i].year5ROI)

----------------------------------------------------------------------------
\* Scenario shape

\* the buy-side fields of a scenario are present exactly when it liquidates
WellFormed(s) ==
    (s.sdProperty # Null /\ s.borrower # Null) <=> s.sellXiamen

\* C11: in every reachable state of the App, every scenario built by the
\* generators (allResults, generateScenarios) or by the current-selection
\* path has sdProperty and borrower non-null if and only if sellXiamen is
\* true.
C11_BuyFieldsPresentIffSelling ==
    /\ WellFormed(appCurrentScenario)
    /\ \A s \in SeqToSet(appScenarios) : WellFormed(s)
    /\ \A s \in SeqToSet(generateScenarios(xiamen, sdOptions, <<appBorrower>>,
                                            sdRentIfNotBuying)) :
          WellFormed(s)

\* C11 witness: after a co-borrower was added, the grid holds the baseline
\* (no buy-side fields) and buy scenarios, and the current selection sells.
C11_Witness ==
    /\ Len(coBorrowers) = 2
    /\ appCurrentScenario.sellXiamen
    /\ appCurrentScenario.sdProperty # Null
    /\ appCurrentScenario.borrower # Null
    /\ Len(appScenarios) > 1
    /\ ~appScenarios[1].sellXiamen
    /\ appScenarios[1].sdProperty = Null
    /\ appScenarios[1].borrower = Null
    /\ appScenarios[2].sellXiamen

----------------------------------------------------------------------------
\* The fallback loan terms

\* a borrower is attached and none of its loan options qualifies
NoLoanQualifies(s) ==
    s.borrower # Null /\ Qualifying(s.borrower, s.downPaymentPercent) = {}

\* the insurance premium inside a result's total monthly payment
PremiumPaid(r) ==
    r.monthlyRentalIncome - r.monthlyCashflow - r.monthlyMortgage
        - r.monthlyHOATax

\* C12: when no loan option of the current selection's borrower qualifies
\* for the down payment, currentResult is still computed, with the interest
\* rate 6.5% (in the mortgage and in the remaining balance) and an insurance
\* premium of 0; no buy scenario of the grid is in that case.
C12_DefaultTermsWhenNoLoanQualifies ==
    /\ NoLoanQualifies(appCurrentScenario) =>
          \A r \in {appCurrentResult} :
              LET loanAmount == r.scenario.sdProperty.price - r.downPayment IN
              /\ r.monthlyMortgage =
                    calculateMonthlyMortgage(loanAmount, DefaultInterestRate,
                                             MortgageYears)
              /\ r.year5PropertyValue - r.year5Equity =
                    calculateRemainingBalance(loanAmount, DefaultInterestRate,
                                              MortgageYears, analysisYears * 12)
              /\ PremiumPaid(r) = 0
    /\ \A s \in SeqToSet(appScenarios) : s.sellXiamen => ~NoLoanQualifies(s)

\* C12 witness: the conventional loan (minimum down payment 3.5%) with the
\* down-payment slider at 0: the current selection has no qualifying loan
\* while the grid still holds buy scenarios.
C12_Witness ==
    /\ loanType = "conventional"
    /\ downPaymentPercent = 0
    /\ NoLoanQualifies(appCurrentScenario)
    /\ appCurrentResult.monthlyMortgage > 0
    /\ Len(appScenarios) > 1

\* the premium of the loan option selected for scenario s, when one
\* qualifies, it names a premium and the down payment is below 20%
PremiumDue(s) ==
    IF s.borrower = Null THEN 0
    ELSE IF Qualifying(s.borrower, s.downPaymentPercent) = {} THEN 0
    ELSE LET selected == getBestLoanOption(s.borrower, s.downPaymentPercent)
         IN  IF selected.pmi # 0 /\ s.downPaymentPercent < PmiDownPaymentLimit
             THEN selected.pmi ELSE 0

\* C13: in the liquidate-and-buy branch the insurance premium inside the
\* total monthly payment is the selected loan option's pmi when an option
\* qualifies, it names a premium and downPaymentPercent < 0.20, and 0 in
\* every other case.
C13_PremiumOnlyBelowTwentyPercent ==
    BuyBranch => PremiumPaid(ret) = PremiumDue(inp.scenario)

\* C13 witness: a premium was charged on a down payment below 20%.
C13_Witness ==
    /\ BuyBranch
    /\ inp.scenario.downPaymentPercent < PmiDownPaymentLimit
    /\ inp.scenario.downPaymentPercent > 0
    /\ PremiumPaid(ret) > 0

----------------------------------------------------------------------------
\* Risk metrics

\* the income the ratios are taken over: the attached borrower's, and the
\* default only without a borrower
AttachedIncome(s) ==
    IF s.borrower = Null THEN DefaultMonthlyIncome ELSE s.borrower.monthlyIncome

\* v is a finite number (a division by zero yields Infinity or NaN)
IsFinite(v) == v \in Int

\* C14: in the liquidate-and-buy branch dti = (mortgage + carrying cost +
\* insurance) / income * 100 and mortgageToIncomeRatio = mortgage / income *
\* 100, where income is the attached borrower's monthlyIncome whenever a
\* borrower is attached and 5000 only when no borrower is attached.
C14_RatiosOverAttachedIncome ==
    BuyBranch =>
        LET income  == AttachedIncome(inp.scenario)
            payment == ret.monthlyMortgage + ret.monthlyHOATax
                           + PremiumDue(inp.scenario)
        IN  IF income = 0
            THEN ~IsFinite(ret.dti) /\ ~IsFinite(ret.mortgageToIncomeRatio)
            ELSE /\ ret.dti = Percent(payment, income)
                 /\ ret.mortgageToIncomeRatio =
                       Percent(ret.monthlyMortgage, income)

----------------------------------------------------------------------------
\* The hold-and-rent branch

\* the call evaluated the hold-and-rent branch
HoldBranch ==
    /\ call = "calculateScenario"
    /\ ~inp.scenario.sellXiamen \/ inp.scenario.sdProperty = Null

\* C15: in the hold-and-rent branch monthlyImputedRent is 0 and the
\* effective figures equal the actual ones: monthlyEffectiveCashflow =
\* monthlyCashflow = (source rent / exchange rate) - sdRentIfNotBuying,
\* annualEffectiveCashflow = annualCashflow = 12 * monthlyCashflow, and
\* effectiveCashflowAPY = cashflowAPY.
C15_HoldBranchEffectiveEqualsActual ==
    HoldBranch =>
        /\ ret.monthlyImputedRent = 0
        /\ ret.monthlyCashflow =
              ((inp.xiamen.monthlyRent * 100) \div inp.xiamen.exchangeRate)
                  - inp.scenario.sdRentIfNotBuying
        /\ ret.monthlyEffectiveCashflow = ret.monthlyCashflow
        /\ ret.annualCashflow = 12 * ret.monthlyCashflow
        /\ ret.annualEffectiveCashflow = ret.annualCashflow
        /\ ret.effectiveCashflowAPY = ret.cashflowAPY

\* C15 witness: a scenario that sells without a property to buy is evaluated
\* in the hold-and-rent branch, with a rent to pay in SD.
C15_Witness ==
    /\ HoldBranch
    /\ inp.scenario.sellXiamen
    /\ inp.scenario.sdRentIfNotBuying > 0
    /\ ret.monthlyCashflow < 0
    /\ ret.cashflowAPY < 0

\* C16: in the hold-and-rent branch the terminal total return is the
\* cumulative cashflow (year5TotalReturn = annualCashflow * analysisYears)
\* and the terminal property value and equity are the unappreciated source
\* value.
C16_HoldBranchReturnIsCumulativeCashflow ==
    HoldBranch =>
        /\ ret.year5TotalReturn = ret.annualCashflow * inp.analysisYears
        /\ ret.year5PropertyValue =
              (inp.xiamen.marketValue * 100) \div inp.xiamen.exchangeRate
        /\ ret.year5Equity = ret.year5PropertyValue

\* C16 witness: the baseline over three years with a non-zero cashflow.
C16_Witness ==
    /\ HoldBranch
    /\ ~inp.scenario.sellXiamen
    /\ inp.scenario.sdProperty = Null
    /\ inp.analysisYears = 3
    /\ ret.year5TotalReturn # 0
    /\ ret.year5Equity > 0

----------------------------------------------------------------------------
\* The terminal return of a purchase

\* C17: for every liquidate-and-buy result, year5TotalReturn = year5Equity +
\* remainingCash + annualEffectiveCashflow * analysisYears -
\* initialInvestment, where initialInvestment is the net proceeds of the
\* liquidation and the accumulated cashflow is the effective one.
C17_TerminalReturnUsesEffectiveCashflow ==
    BuyBranch =>
        /\ ret.initialInvestment = calculateXiamenNetProceeds(inp.xiamen)
        /\ ret.year5TotalReturn =
              ret.year5Equity + ret.remainingCash
                  + ret.annualEffectiveCashflow * inp.analysisYears
                  - ret.initialInvestment

\* C17 witness: a purchase whose effective cashflow differs from the actual
\* one and that leaves cash over.
C17_Witness ==
    /\ BuyBranch
    /\ ret.annualEffectiveCashflow # ret.annualCashflow
    /\ ret.remainingCash > 0
    /\ ret.year5Equity > 0

----------------------------------------------------------------------------
\* Purity of the evaluator

\* the two results of evaluating the same input twice
SameResultTwice ==
    call = "calculateScenarioTwice" =>
        /\ ret.first = ret.second
        /\ ret.first.scenario = inp.scenario
        /\ ret.second.scenario = inp.scenario

----------------------------------------------------------------------------
\* The current selection against the grid

\* the result r without the scenario it was computed from
Numbers(r) == [r EXCEPT !.scenario = Null]

\* the grid scenario s is the combination of the current selection c
SameCombination(s, c) ==
    /\ s.sellXiamen
    /\ s.downPaymentPercent = c.downPaymentPercent
    /\ s.roomsToRent = c.roomsToRent
    /\ s.sdProperty = c.sdProperty
    /\ s.borrower = c.borrower

\* every result of the grid computed for the combination of current
\* carries the numbers of current
AgreesWithGrid(current, scenarios, results) ==
    \A c \in {current} :
        \A i \in { j \in 1..Len(scenarios) :
                      SameCombination(scenarios[j], c.scenario) } :
            Numbers(results[i]) = Numbers(c)

\* src/src/App.tsx: the borrower selected when the App starts (useState(2),
\* counted from 0)
selectedBorrowerIndex == 2 + 1

\* src/src/App.tsx: currentResult, for the selected borrower
currentResultBorrowers ==
    currentResult(xiamen, sdOptions, selectedPropertyType, downPaymentPercent,
                  defaultBorrowers[selectedBorrowerIndex], roomsToRent,
                  sdRentIfNotBuying, analysisYears)

\* C19: in every state of the App in which the current selection (property,
\* down payment, borrower, rooms) is a combination of the grid, every
\* numeric field of currentResult equals the field of the grid result of
\* that combination; in both versions of the App.
C19_CurrentResultAgreesWithGrid ==
    /\ AgreesWithGrid(appCurrentResult, appScenarios, appResults)
    /\ AgreesWithGrid(currentResultBorrowers,
                      allScenariosBorrowers(xiamen, sdOptions,
                                            defaultBorrowers,
                                            sdRentIfNotBuying),
                      allResultsBorrowers(xiamen, sdOptions, defaultBorrowers,
                                          sdRentIfNotBuying, analysisYears))

\* C19 witness: after edits, with a down payment of 5%, the current
\* selection is a combination of the grid of allResults (part_001).
C19_Witness ==
    /\ edits = MaxEdits
    /\ sdRentIfNotBuying # 850
    /\ downPaymentPercent = 50000
    /\ \E j \in 1..Len(appScenarios) :
          SameCombination(appScenarios[j], appCurrentScenario)

----------------------------------------------------------------------------
\* ---- specification of the calls of calculateRemainingBalance ----

BalancePrincipals == {1, 100000, 336000, 412500, 440000, 600000}
BalanceRates == {0, 55000, 65000}
BalanceYears == {15, 30}

\* no payment made, five years of payments, every payment made
BalancePayments(years) == {0, 60, years * 12}

InitBalance ==
    /\ InitApp
    /\ \E y \in BalanceYears :
          inp \in { [principal |-> p, annualRate |-> r, years |-> y,
                     paymentsMade |-> m] :
                   p \in BalancePrincipals, r \in BalanceRates,
                   m \in BalancePayments(y) }
    /\ call = "init"
    /\ ret = Null

CallCalculateRemainingBalance ==
    /\ call = "init"
    /\ ret' = calculateRemainingBalance(inp.principal, inp.annualRate,
                                        inp.years, inp.paymentsMade)
    /\ call' = "calculateRemainingBalance"
    /\ UNCHANGED <<inp, appVars>>

NextBalance == CallCalculateRemainingBalance

SpecBalance == InitBalance /\ [][NextBalance]_vars

\* C20: calculateRemainingBalance(principal, rate, years, 0) is the
\* principal and calculateRemainingBalance(principal, rate, years,
\* years * 12) is 0, in the linear case of a zero rate and for a rate > 0.
C20_BalanceStartsAtPrincipalEndsAtZero ==
    call = "calculateRemainingBalance" =>
        /\ inp.paymentsMade = 0 => ret = inp.principal
        /\ inp.paymentsMade = inp.years * 12 => ret = 0

\* C20 witness: a loan at a positive rate is paid off by its last payment.
C20_Witness ==
    /\ call = "calculateRemainingBalance"
    /\ inp.annualRate > 0
    /\ inp.principal > 1
    /\ inp.paymentsMade = inp.years * 12
    /\ ret = 0

----------------------------------------------------------------------------
\* ---- specification of the App component with emptied number fields ----
\* Every number field stores Number(e.target.value) unchecked, and the text
\* of an emptied field is '', for which Number gives 0.  The actions below
\* are the onChange handlers of three fields on the empty text.

ClearMarketValue ==
    /\ Edit
    /\ xiamen' = [xiamen EXCEPT !.marketValue = Number("") * 10000]
    /\ UNCHANGED <<sdOptions, sdRentIfNotBuying, analysisYears, loanType,
                   coBorrowers, customInterestRate, newBorrowerName,
                   newBorrowerIncome, selectedPropertyType,
                   downPaymentPercent, roomsToRent, stockReturnRate>>

ClearExchangeRate ==
    /\ Edit
    /\ xiamen' = [xiamen EXCEPT !.exchangeRate = Number("")]
    /\ UNCHANGED <<sdOptions, sdRentIfNotBuying, analysisYears, loanType,
                   coBorrowers, customInterestRate, newBorrowerName,
                   newBorrowerIncome, selectedPropertyType,
                   downPaymentPercent, roomsToRent, stockReturnRate>>

ClearPrice ==
    /\ Edit
    /\ sdOptions' = withSelected("price", Number(""))
    /\ UNCHANGED <<xiamen, sdRentIfNotBuying, analysisYears, loanType,
                   coBorrowers, customInterestRate, newBorrowerName,
                   newBorrowerIncome, selectedPropertyType,
                   downPaymentPercent, roomsToRent, stockReturnRate>>

NextParams ==
    \/ Next
    \/ ClearMarketValue
    \/ ClearExchangeRate
    \/ ClearPrice

SpecParams == Init /\ [][NextParams]_vars

\* the initial outlay of a purchase: downPayment + closingCosts
totalInitialCost(scenario) ==
    FMul(scenario.sdProperty.price, scenario.downPaymentPercent)
        + FMul(scenario.sdProperty.price, ClosingCostRate)

\* C21: in every state the parameter edits can reach, the evaluator is
\* called with non-zero denominators: the exchange rate is not 0, the net
\* proceeds of the sale are not 0, and the initial outlay (downPayment +
\* closingCosts) of the scenario of the current selection is not 0.
C21_EvaluatorDenominatorsNonZero ==
    /\ xiamen.exchangeRate # 0
    /\ calculateXiamenNetProceeds(xiamen) # 0
    /\ totalInitialCost(appCurrentScenario) # 0

----------------------------------------------------------------------------
\* Leftover cash

\* the fields of a CalculationResult
ResultFields ==
    {"scenario", "initialInvestment", "downPayment", "closingCosts",
     "remainingCash", "monthlyMortgage", "monthlyHOATax",
     "monthlyRentalIncome", "monthlyImputedRent", "monthlyTotalIncome",
     "monthlyCashflow", "monthlyEffectiveCashflow", "annualCashflow",
     "annualEffectiveCashflow", "cashflowAPY", "effectiveCashflowAPY",
     "year5PropertyValue", "year5Equity", "year5TotalReturn", "year5ROI",
     "year5AnnualizedROI", "dti", "mortgageToIncomeRatio"}

\* C22: the result of the current selection, a liquidate-and-buy scenario,
\* is always a full result, whether or not the proceeds pay for the
\* purchase: its closingCosts are 3% of the price and its remainingCash is
\* the net proceeds minus (downPayment + closingCosts), negative when the
\* selection is unaffordable.
C22_LeftoverCashMayBeNegative ==
    \A r \in {appCurrentResult} :
        /\ r # Null
        /\ DOMAIN r = ResultFields
        /\ r.scenario = appCurrentScenario
        /\ r.closingCosts = FMul(selectedProperty.price, 3 * PCT)
        /\ r.downPayment = FMul(selectedProperty.price, downPaymentPercent)
        /\ r.remainingCash = calculateXiamenNetProceeds(xiamen)
                                 - (r.downPayment + r.closingCosts)

\* C22 witness: the selected purchase costs more than the sale brings in,
\* and its result has a negative remainingCash.
C22_Witness ==
    /\ edits > 0
    /\ appCurrentResult # Null
    /\ appCurrentResult.remainingCash < 0
    /\ appCurrentResult.downPayment + appCurrentResult.closingCosts
           > calculateXiamenNetProceeds(xiamen)

----------------------------------------------------------------------------
\* Independence of the analysis horizon

\* the fields of a result named after the horizon
HorizonFields ==
    {"year5PropertyValue", "year5Equity", "year5TotalReturn", "year5ROI",
     "year5AnnualizedROI"}

\* the evaluation of the call's scenario over another horizon
OverHorizon(years) == calculateScenario(inp.scenario, inp.xiamen, years)

\* C23: the mortgage payment of a liquidate-and-buy scenario is the
\* 30-year payment whatever the horizon, and the evaluations of the same
\* scenario over two horizons agree on every field (initial outlay, monthly,
\* annual, APY, dti, mortgageToIncomeRatio) except the year5* fields.
C23_OnlyTerminalFieldsDependOnHorizon ==
    BuyBranch =>
        /\ ret.monthlyMortgage =
              calculateMonthlyMortgage(
                  inp.scenario.sdProperty.price - ret.downPayment,
                  loanTerms(inp.scenario).interestRate, 30)
        /\ \A years \in AnalysisYearsOptions :
              \A other \in {OverHorizon(years)} :
                  \A f \in ResultFields \ HorizonFields : other[f] = ret[f]

\* C23 witness: a financed purchase evaluated over 3 years has the same
\* mortgage payment as over 10 years and another equity.
C23_Witness ==
    /\ BuyBranch
    /\ inp.analysisYears = 3
    /\ ret.monthlyMortgage > 0
    /\ OverHorizon(10).monthlyMortgage = ret.monthlyMortgage
    /\ OverHorizon(10).year5Equity # ret.year5Equity

----------------------------------------------------------------------------
\* Rented rooms

\* the scenario rents out between 0 and all the rooms of its property
RoomsWithinProperty(s) ==
    s.sellXiamen => /\ 0 <= s.roomsToRent
                    /\ s.roomsToRent <= s.sdProperty.rooms

\* C24: after any sequence of events the stored roomsToRent is between 0
\* and the rooms of the selected property, and every scenario handed to the
\* evaluator (the current selection and the grid) rents out between 0 and
\* the rooms of its property.
C24_RoomsToRentWithinProperty ==
    /\ 0 <= roomsToRent
    /\ roomsToRent <= selectedProperty.rooms
    /\ RoomsWithinProperty(appCurrentScenario)
    /\ \A s \in SeqToSet(appScenarios) : RoomsWithinProperty(s)

\* C24 witness: with 2 rooms rented in the 2B2B, choosing the 1B1B leaves
\* 1 room rented.
C24_Witness ==
    /\ edits = 1
    /\ selectedPropertyType = "1B1B"
    /\ roomsToRent = 1
    /\ appCurrentScenario.roomsToRent = 1

----------------------------------------------------------------------------
\* Scenario ids
\* A scenario id is a template string.  The model's id field holds the
\* interpolated values; idText renders them as the template does, into the
\* sequence of the characters of the string.

\* the characters of the strings interpolated into ids
Chars(text) ==
    CASE
        text = "1B1B" -> <<"1", "B", "1", "B">> []
        text = "2B2B" -> <<"2", "B", "2", "B">> []
        text = "3B2B" -> <<"3", "B", "2", "B">> []
        text = "Jinglin" -> <<"J", "i", "n", "g", "l", "i", "n">> []
        text = "Gavin" -> <<"G", "a", "v", "i", "n">> []
        text = "Xiaoyu" -> <<"X", "i", "a", "o", "y", "u">> []
        text = "JJ" -> <<"J", "J">> []
        text = "baseline" -> <<"b", "a", "s", "e", "l", "i", "n", "e">> []
        text = "current" -> <<"c", "u", "r", "r", "e", "n", "t">> []
        text = "rooms" -> <<"r", "o", "o", "m", "s">>

Digit(d) == <<"0", "1", "2", "3", "4", "5", "6", "7", "8", "9">>[d + 1]

\* String(n) for an integer n >= 0
RECURSIVE Digits(_)
Digits(n) ==
    IF n < 10 THEN <<Digit(n)>> ELSE Digits(n \div 10) \o <<Digit(n % 10)>>

\* (variant of idText: the rented rooms are left out of the id)
idText_withoutRooms(id) ==
    IF Len(id) = 1 THEN Chars(id[1])
    ELSE IF Len(id) = 3
    THEN Chars(id[1]) \o <<"-">> \o Digits(id[2] \div PCT) \o <<"%">>
    ELSE Chars(id[1]) \o <<"-">> \o Chars(id[2]) \o <<"-">>
             \o Digits(id[3] \div PCT) \o <<"%">>

\* `${type}-${dp * 100}%-${rooms}rooms` (part_001),
\* `${type}-${borrower.name}-${dp * 100}%-${rooms}rooms` (calculator.ts and
\* src/src/App.tsx), and the literals 'baseline' and 'current'; dp * 100 is
\* a whole number for every enumerated down payment
idText(id) ==
    IF Len(id) = 1 THEN Chars(id[1])
    ELSE IF Len(id) = 3
    THEN Chars(id[1]) \o <<"-">> \o Digits(id[2] \div PCT) \o <<"%", "-">>
             \o Digits(id[3]) \o Chars("rooms")
    ELSE Chars(id[1]) \o <<"-">> \o Chars(id[2]) \o <<"-">>
             \o Digits(id[3] \div PCT) \o <<"%", "-">>
             \o Digits(id[4]) \o Chars("rooms")

\* the values the generator of the call interpolates into the id of s
EnumeratedCombination(s) ==
    IF call = "allResults"
    THEN <<s.sdProperty.type, s.downPaymentPercent, s.roomsToRent>>
    ELSE <<s.sdProperty.type, s.borrower.name, s.downPaymentPercent,
           s.roomsToRent>>

\* the property types and the borrower names of the call are distinct
DistinctCategoriesAndNames ==
    /\ \A i, j \in 1..Len(inp.sdOptions) :
          i # j => inp.sdOptions[i].type # inp.sdOptions[j].type
    /\ \A i, j \in 1..Len(inp.borrowers) :
          i # j => inp.borrowers[i].name # inp.borrowers[j].name

\* C25: in the grid of each generator the id of a buy scenario is the
\* template applied to its combination (property type, borrower name where
\* the generator enumerates borrowers, down payment, rooms) and is not
\* 'baseline', and, the property types and borrower names being distinct,
\* no two scenarios of the grid have the same id.
C25_ScenarioIdsAreUnique ==
    (call \in GridCalls /\ DistinctCategoriesAndNames) =>
        /\ \A i \in 1..Len(ret) :
              ret[i].scenario.sellXiamen =>
                  /\ ret[i].scenario.id = EnumeratedCombination(ret[i].scenario)
                  /\ idText(ret[i].scenario.id) # Chars("baseline")
        /\ \A i, j \in 1..Len(ret) :
              i # j => idText(ret[i].scenario.id) # idText(ret[j].scenario.id)

\* C25 witness: a grid over two properties and two borrowers holds scenarios
\* that differ only in the rented rooms, and their ids differ.
C25_Witness ==
    /\ call = "generateScenarios"
    /\ Len(inp.sdOptions) = 2
    /\ Len(inp.borrowers) = 2
    /\ \E i, j \in 1..Len(ret) :
          /\ ret[i].scenario.sellXiamen
          /\ ret[j].scenario.sellXiamen
          /\ ret[i].scenario.sdProperty = ret[j].scenario.sdProperty
          /\ ret[i].scenario.borrower = ret[j].scenario.borrower
          /\ ret[i].scenario.downPaymentPercent
                 = ret[j].scenario.downPaymentPercent
          /\ ret[i].scenario.roomsToRent # ret[j].scenario.roomsToRent
          /\ idText(ret[i].scenario.id) # idText(ret[j].scenario.id)

----------------------------------------------------------------------------
\* Loan qualification and the down payment

\* C26: if getBestLoanOption returns an option for the down payment dp,
\* then for every larger down payment of the same borrower it returns an
\* option too, whose interestRate is not higher.
C26_QualificationMonotoneInDownPayment ==
    (call = "getBestLoanOption" /\ ret # Null) =>
        \A dp2 \in LoanDownPayments :
            inp.dp <= dp2 =>
                \A larger \in {getBestLoanOption(inp.borrower, dp2)} :
                    /\ larger # Null
                    /\ larger.interestRate <= ret.interestRate

\* C26 witness: the borrower qualifies at dp, and a larger down payment
\* opens a strictly cheaper option.
C26_Witness ==
    /\ call = "getBestLoanOption"
    /\ ret # Null
    /\ \E dp2 \in LoanDownPayments :
          /\ inp.dp < dp2
          /\ getBestLoanOption(inp.borrower, dp2) # Null
          /\ getBestLoanOption(inp.borrower, dp2).interestRate
                 < ret.interestRate

----------------------------------------------------------------------------
\* ---- specification of the borrower list of the App ----
\* The borrower events alone, started with a list the events can produce:
\* JJ followed by added Gavins (8000 a month), with or without JJ removed.

MaxListed == 3

Gavin == [name |-> "Gavin", monthlyIncome |-> 8000]

BorrowerLists ==
    { q \in UNION { [1..n -> {defaultCoBorrowers[1], Gavin}] :
                      n \in 1..MaxListed } :
        \A i \in 2..Len(q) : q[i] = Gavin }

InitBorrowers ==
    /\ xiamen = defaultXiamen
    /\ sdOptions = defaultSDOptions
    /\ sdRentIfNotBuying = 850
    /\ analysisYears = 5
    /\ loanType = "va"
    /\ coBorrowers \in BorrowerLists
    /\ customInterestRate = Null
    /\ newBorrowerName = ""
    /\ newBorrowerIncome = ""
    /\ selectedPropertyType = "2B2B"
    /\ downPaymentPercent = 200000
    /\ roomsToRent = 2
    /\ stockReturnRate = 60000
    /\ edits = 0
    /\ inp = Null
    /\ call = "render"
    /\ ret = Null

NextBorrowers ==
    \/ SetNewBorrowerName
    \/ SetNewBorrowerIncome
    \/ handleAddBorrower
    \/ handleRemoveBorrower

SpecBorrowers == InitBorrowers /\ [][NextBorrowers]_vars

\* the add button would add nothing: the name is blank or the income empty
BlankEntry == trim(newBorrowerName) = "" \/ newBorrowerIncome = ""

\* C27: the co-borrower list always holds at least one borrower; no step
\* shortens a list of one borrower, in particular a remove leaves it
\* unchanged; and an add with a blank name or an empty income leaves the
\* list unchanged.
C27_BorrowerListNeverEmpty ==
    /\ [](Len(coBorrowers) >= 1)
    /\ [][Len(coBorrowers) = 1 => Len(coBorrowers') >= 1]_vars
    /\ [][(handleRemoveBorrower /\ Len(coBorrowers) = 1)
              => coBorrowers' = coBorrowers]_vars
    /\ [][(handleAddBorrower /\ BlankEntry) => coBorrowers' = coBorrowers]_vars

\* C27 witness: JJ has been removed from the list of JJ and Gavin, and a
\* further remove and an add with an empty income have left Gavin alone.
C27_Witness ==
    /\ edits = 3
    /\ Len(coBorrowers) = 1
    /\ coBorrowers[1].name = "Gavin"
    /\ newBorrowerIncome = ""

----------------------------------------------------------------------------
\* Loan type and custom interest rate

\* the single loan option of the current borrower
appLoanOption == appBorrower.loanOptions[1]

\* the current borrower's rate is the default rate of the selected loan type
RateAtDefault == appLoanOption.interestRate = LOAN_TYPES[loanType].interestRate

\* C28: the current borrower's loan option always has the minDownPayment
\* and the pmi of the selected loan type; a change of the loan type leaves
\* its rate at the default rate of the selected type, and the rate stays
\* the selected type's default until the interest rate is edited.
C28_LoanTypeChangeDiscardsCustomRate ==
    /\ [](/\ Len(appBorrower.loanOptions) = 1
          /\ appLoanOption.type = loanType
          /\ appLoanOption.minDownPayment = LOAN_TYPES[loanType].minDownPayment
          /\ appLoanOption.pmi = LOAN_TYPES[loanType].pmi)
    /\ [][SetLoanType => RateAtDefault']_vars
    /\ [][(RateAtDefault /\ ~SetCustomInterestRate) => RateAtDefault']_vars

\* C28 witness: two events have changed the VA loan to the conventional
\* loan, no custom rate is left, and the option carries the 6.2% rate, the
\* 3.5% minimum down payment and the premium of the conventional loan.
C28_Witness ==
    /\ edits = 2
    /\ loanType = "conventional"
    /\ customInterestRate = Null
    /\ appLoanOption.interestRate = 62000
    /\ appLoanOption.minDownPayment = 35000
    /\ appLoanOption.pmi = 150

----------------------------------------------------------------------------
\* ---- specification of the two DTI tests of the App ----
\* The metric card and the plot filter, each applied to the same dti value.

DtiSpread == 20

\* dti values around the limit, a hundredth of a percent apart
DtiValues == { DtiLimit + k * (PCT \div 100) : k \in (0 - DtiSpread)..DtiSpread }

InitDti ==
    /\ InitApp
    /\ inp \in { [dti |-> v] : v \in DtiValues }
    /\ call = "init"
    /\ ret = Null

RenderDtiCard ==
    /\ call = "init"
    /\ ret' = [warning |-> dtiWarning(inp.dti)]
    /\ call' = "metricCard"
    /\ UNCHANGED <<inp, appVars>>

FilterForPlot ==
    /\ call = "metricCard"
    /\ ret' = [warning |-> ret.warning, kept |-> passesDtiFilter(inp.dti)]
    /\ call' = "paretoData"
    /\ UNCHANGED <<inp, appVars>>

NextDti == RenderDtiCard \/ FilterForPlot

SpecDti == InitDti /\ [][NextDti]_vars

\* C29: for every dti value the metric card flags the result as exceeding
\* the 43% limit if and only if the plot filter excludes it.
C29_DtiWarningAgreesWithFilter ==
    call = "paretoData" => (ret.warning <=> ~ret.kept)

----------------------------------------------------------------------------
\* Buying against the stock market (part_001)

calculateStockInvestment(initialInvestment, annualReturn, years, monthlyRent) ==
    LET yearNValue       == FMul(initialInvestment, Pow(ONE + annualReturn, years))
        yearNGain        == yearNValue - initialInvestment
        totalRentPaid    == monthlyRent * 12 * years
        netGainAfterRent == yearNGain - totalRentPaid
    IN  [initialInvestment |-> initialInvestment,
         stockReturn       |-> annualReturn,
         yearNValue        |-> yearNValue,
         yearNGain         |-> yearNGain,
         annualizedROI     |->
             AnnualizedPercent(FDiv(yearNValue, initialInvestment), years),
         totalRentPaid     |-> totalRentPaid,
         netGainAfterRent  |-> netGainAfterRent]

\* stockResult: the down payment and the closing costs go into stocks
stockResult(current, rate, years, sdRent) ==
    calculateStockInvestment(current.downPayment + current.closingCosts,
                             rate, years, sdRent)

\* the net worth of the purchase after the horizon, as the CSV summary, the
\* bar chart and the verdict each compute it
buyingNetWorth(current, years) ==
    current.year5Equity + current.remainingCash
        + current.annualEffectiveCashflow * years

\* generateCSV: the stock net worth of the summary rows
csvStockNetWorth(current, stock) == stock.yearNValue

\* generateCSV: the row 'conclusion'
csvConclusion(current, stock, years) ==
    IF buyingNetWorth(current, years) - csvStockNetWorth(current, stock) > 0
    THEN "buying" ELSE "stocks"

\* the verdict box: the stock total
screenStockTotal(current, stock) ==
    stock.yearNValue - stock.totalRentPaid + current.remainingCash

\* the verdict box: the sentence shown
screenVerdict(current, stock, years) ==
    IF buyingNetWorth(current, years) - screenStockTotal(current, stock) > 0
    THEN "buying" ELSE "stocks"

\* C30: in every state the conclusion of the CSV export and the verdict on
\* screen name the same winner of the comparison of buying with stocks.
C30_CsvAndScreenNameSameWinner ==
    \A current \in {appCurrentResult} :
        \A stock \in {stockResult(current, stockReturnRate, analysisYears,
                                  sdRentIfNotBuying)} :
            csvConclusion(current, stock, analysisYears)
                = screenVerdict(current, stock, analysisYears)

====
